---- MODULE Spec2Model ----
(***************************************************************************)
(* Model of the code-analysis service of ai-code-alchemist:                *)
(*   - api/analyze.js: the HTTP handler (input resolution, zip extraction, *)
(*     corpus assembly, completion call, response extraction, cleanup);    *)
(*   - src/pages/Home.jsx: the page's result normalizer.                   *)
(* Texts are sequences of tokens, JSON values are tagged records, the      *)
(* temporary directory is a set of upload files plus the extraction        *)
(* directories keyed by the Date.now() value in their name.                *)
(***************************************************************************)
EXTENDS Integers, Sequences, FiniteSets, TLC

(***************************************************************************)
(* Bounds of the model.                                                    *)
(***************************************************************************)
\* Date.now() takes the values 0..MaxClock.
MaxClock == 1
\* Total number of findings over the four lists of a response shown by the page.
MaxFindings == 2
\* Number of distinct strings generateUniqueId can return.
NumRand == 2

\* The requests the hosting runtime serves concurrently.
Req == {1, 2}

(***************************************************************************)
(* JSON values (the results of JSON.parse).                                *)
(***************************************************************************)
JNull == [t |-> "null"]
JNum == [t |-> "num"]
JStr(s) == [t |-> "str", s |-> s]
JArr(items) == [t |-> "arr", items |-> items]
JObj(m) == [t |-> "obj", m |-> m]

\* The function with the empty domain (an object without keys).
NoKeys == [k \in {} |-> JNull]

(***************************************************************************)
(* Texts.  A text is a sequence of tokens: the JSON punctuation, string    *)
(* literals, the literals null and 1, white space, the markdown fences and *)
(* "prose" (words that are not JSON).  A string literal is one token when  *)
(* it is one of StringLits; any other one is written out as the quote "q", *)
(* the tokens of its content and the quote again.                          *)
(***************************************************************************)
StringLits == {"bugs", "security_vulnerabilities", "improvements", "explanations",
               "message", "m1", "m2", "severity", "low"}

\* A string whose content is words, a closing brace and three backticks.
BraceFenceString == "words, a closing brace, three backticks"

\* The content of a written-out string literal, and the string of a content.
CharsOf(s) == IF s = BraceFenceString THEN <<"prose", "}", "fence">> ELSE <<"prose">>
StringOf(content) ==
  IF content = <<"prose", "}", "fence">> THEN BraceFenceString ELSE "words"

IsWs(tok) == tok = "ws"
\* The opening fence begins with the three backticks of the closing fence, so it
\* also matches the closing fence of the pattern.
\* "fence" is the three backticks, "fence_json" the three backticks followed by json.
IsFence(tok) == tok \in {"fence", "fence_json"}

\* Index of the first token at or after i that is not white space (Len+1 if none).
SkipWs(text, i) ==
  LET rest == {j \in i..Len(text) : ~IsWs(text[j])}
  IN IF rest = {} THEN Len(text) + 1 ELSE CHOOSE j \in rest : \A k \in rest : j <= k

SubText(text, i, j) == [k \in 1..(j - i + 1) |-> text[i + k - 1]]

ParseFail == [ok |-> FALSE, v |-> JNull, n |-> 0]

RECURSIVE ParseValue(_, _), ParseMembers(_, _, _), ParseElements(_, _, _)

\* JSON value starting at token i: [ok, v, n] with n the index after the value.
ParseValue(text, i) ==
  LET j == SkipWs(text, i)
  IN IF j > Len(text) THEN ParseFail
     ELSE CASE text[j] = "{" ->
                 LET k == SkipWs(text, j + 1)
                 IN IF k <= Len(text) /\ text[k] = "}"
                    THEN [ok |-> TRUE, v |-> JObj(NoKeys), n |-> k + 1]
                    ELSE ParseMembers(text, k, NoKeys)
            [] text[j] = "[" ->
                 LET k == SkipWs(text, j + 1)
                 IN IF k <= Len(text) /\ text[k] = "]"
                    THEN [ok |-> TRUE, v |-> JArr(<<>>), n |-> k + 1]
                    ELSE ParseElements(text, k, <<>>)
            [] text[j] \in StringLits -> [ok |-> TRUE, v |-> JStr(text[j]), n |-> j + 1]
            [] text[j] = "q" ->
                 LET ends == {e \in (j + 1)..Len(text) : text[e] = "q"}
                 IN IF ends = {} THEN ParseFail
                    ELSE LET e == CHOOSE x \in ends : \A y \in ends : x <= y
                         IN [ok |-> TRUE, v |-> JStr(StringOf(SubText(text, j + 1, e - 1))),
                             n |-> e + 1]
            [] text[j] = "null" -> [ok |-> TRUE, v |-> JNull, n |-> j + 1]
            [] text[j] = "1" -> [ok |-> TRUE, v |-> JNum, n |-> j + 1]
            [] OTHER -> ParseFail

\* Members of an object from token i on: "key" : value (, "key" : value)* }
ParseMembers(text, i, m) ==
  LET k == SkipWs(text, i)
      c == SkipWs(text, k + 1)
  IN IF k > Len(text) \/ c > Len(text) THEN ParseFail
     ELSE IF text[k] \notin StringLits \/ text[c] # ":" THEN ParseFail
     ELSE LET val == ParseValue(text, c + 1)
              e == SkipWs(text, val.n)
              \* a repeated key keeps the last value
              m2 == (text[k] :> val.v) @@ m
          IN IF ~val.ok \/ e > Len(text) THEN ParseFail
             ELSE IF text[e] = "}" THEN [ok |-> TRUE, v |-> JObj(m2), n |-> e + 1]
             ELSE IF text[e] = "," THEN ParseMembers(text, e + 1, m2)
             ELSE ParseFail

\* Elements of an array from token i on: value (, value)* ]
ParseElements(text, i, items) ==
  LET val == ParseValue(text, i)
      e == SkipWs(text, val.n)
  IN IF ~val.ok \/ e > Len(text) THEN ParseFail
     ELSE IF text[e] = "]" THEN [ok |-> TRUE, v |-> JArr(Append(items, val.v)), n |-> e + 1]
     ELSE IF text[e] = "," THEN ParseElements(text, e + 1, Append(items, val.v))
     ELSE ParseFail

\* JSON.parse: [ok |-> FALSE] stands for the SyntaxError it throws.
JSONParse(text) ==
  LET r == ParseValue(text, 1)
  IN IF r.ok /\ SkipWs(text, r.n) > Len(text)
     THEN [ok |-> TRUE, v |-> r.v]
     ELSE [ok |-> FALSE, v |-> JNull]

(***************************************************************************)
(* Response extraction (analyze.js 196-229).                               *)
(***************************************************************************)
Min(S) == CHOOSE x \in S : \A y \in S : x <= y

\* Closing braces that can end group 1 of /```json\s*(\{[\s\S]*?\})\s*```/ when the
\* opening fence is token i: the brace is followed by optional white space and a fence.
FencedEnds(text, i) ==
  LET k == SkipWs(text, i + 1)
  IN IF k > Len(text) THEN {}
     ELSE IF text[k] # "{" THEN {}
     ELSE {j \in (k + 1)..Len(text) :
             /\ text[j] = "}"
             /\ LET f == SkipWs(text, j + 1) IN f <= Len(text) /\ IsFence(text[f])}

\* aiResponseText.match(/```json\s*(\{[\s\S]*?\})\s*```/): leftmost start, shortest group.
jsonMatch(text) ==
  LET starts == {i \in 1..Len(text) : text[i] = "fence_json" /\ FencedEnds(text, i) # {}}
  IN IF starts = {} THEN [found |-> FALSE, group |-> <<>>]
     ELSE LET i == Min(starts)
          IN [found |-> TRUE,
              group |-> SubText(text, SkipWs(text, i + 1), Min(FencedEnds(text, i)))]

\* aiResponseText.match(/(\{[\s\S]*?\})/): first opening brace up to the first closing
\* brace after it.
rawJsonMatch(text) ==
  LET starts == {k \in 1..Len(text) :
                   text[k] = "{" /\ \E j \in (k + 1)..Len(text) : text[j] = "}"}
  IN IF starts = {} THEN [found |-> FALSE, group |-> <<>>]
     ELSE LET k == Min(starts)
          IN [found |-> TRUE,
              group |-> SubText(text, k, Min({j \in (k + 1)..Len(text) : text[j] = "}"}))]

\* The string handed to JSON.parse (analyze.js 197-205).
ExtractCandidate(text) ==
  IF jsonMatch(text).found THEN jsonMatch(text).group
  ELSE IF rawJsonMatch(text).found THEN rawJsonMatch(text).group
  ELSE text

\* tempParsed[key] && Array.isArray(tempParsed[key]) (analyze.js 217-220); on null
\* the property read throws inside the try block, which has the same outcome.
HasList(v, key) == v.t = "obj" /\ key \in DOMAIN v.m /\ v.m[key].t = "arr"

RequiredKeys == {"bugs", "security_vulnerabilities", "improvements", "explanations"}

\* Initial value of parsedAnalysis (analyze.js 207-212).
EmptyAnalysis == JObj([k \in RequiredKeys |-> JArr(<<>>)])

\* parsedAnalysis and parseSuccess after the try block (analyze.js 207-229).
ExtractAnalysis(text) ==
  LET tempParsed == JSONParse(ExtractCandidate(text))
  IN IF tempParsed.ok /\ \A key \in RequiredKeys : HasList(tempParsed.v, key)
     THEN [parsed |-> TRUE, analysis |-> tempParsed.v]
     ELSE [parsed |-> FALSE, analysis |-> EmptyAnalysis]

(***************************************************************************)
(* Program constants.                                                      *)
(***************************************************************************)
\* maxFileSize: 4.5 * 1024 * 1024 bytes.
maxFileSize == 4718592
\* MAX_CONTEXT_LENGTH: 900 * 1024.
MAX_CONTEXT_LENGTH == 921600

(***************************************************************************)
(* State.                                                                  *)
(*   now       the value Date.now() returns                                *)
(*   uploads   the upload files formidable wrote to os.tmpdir() that still *)
(*             exist, named by the request they belong to                  *)
(*   dirs      the existing directories zip-extract-<t>, named by t        *)
(*   dirFiles  for each t, the files below zip-extract-<t>: a function     *)
(*             from paths (sequences of names) to [owner, len], owner the  *)
(*             request whose archive the content comes from                *)
(*   req       the request each handler invocation received                *)
(*   h         the local state of each handler invocation                  *)
(*   data, issues, uiPc   the page: the response body it received, the     *)
(*             issue list it built, and where handleAnalyzeCode stands     *)
(*   page      the page's other state: inputCode, uploadedFile, fileName,  *)
(*             isLoading, the throttle of the Analyze button, the pending  *)
(*             file read and the requests in flight                        *)
(***************************************************************************)
VARIABLES now, uploads, dirs, dirFiles, req, h, data, issues, uiPc, page

vars == <<now, uploads, dirs, dirFiles, req, h, data, issues, uiPc, page>>
serverVars == <<now, uploads, dirs, dirFiles, req, h>>
pageVars == <<data, issues, uiPc, page>>

\* Home.jsx 66-76 and 8: the state hooks' initial values, the throttle's flag.
\* timer: the setTimeout of the current throttled function is pending; recent:
\* handleAnalyzeCode was started less than 3000 ms ago; lastClick: what became of
\* the last click on Analyze.
InitialPage ==
  [inputCode |-> "", uploadedFile |-> "none", fileName |-> "", isLoading |-> FALSE,
   reading |-> FALSE, inThrottle |-> FALSE, timer |-> FALSE, recent |-> FALSE,
   inFlight |-> 0, lastClick |-> "none"]

NoFiles == [p \in {} |-> [owner |-> 0, len |-> 0]]

(***************************************************************************)
(* Requests.                                                               *)
(***************************************************************************)
\* Zip archives: state "ok", "badHeader" (new AdmZip throws) or "badEntry"
\* (extractAllTo throws); entries maps each path to the length of its content.
ArchEmpty == [state |-> "ok", entries |-> [p \in {} |-> 0]]
ArchOne == [state |-> "ok", entries |-> [p \in {<<"a.js">>} |-> 8]]
ArchTwo == [state |-> "ok",
            entries |-> [p \in {<<"a.js">>, <<"lib", "b.js">>} |->
                           IF p = <<"a.js">> THEN 4 ELSE 8]]
ArchBadHeader == [state |-> "badHeader", entries |-> [p \in {} |-> 0]]
ArchBadEntry == [state |-> "badEntry", entries |-> [p \in {<<"a.js">>} |-> 8]]

\* A multipart form: the field the file is under ("none": the form has no file), the
\* file's originalFilename, its size in bytes, its text ("blank" or "text") and,
\* for an archive, its entries.
Form(field, name, size, content, zip) ==
  [field |-> field, name |-> name, size |-> size, content |-> content, zip |-> zip]

NoForm == Form("none", "", 0, "blank", ArchEmpty)

Forms ==
  {NoForm}
  \cup {Form("codeFile", "main.js", 1000, c, ArchEmpty) : c \in {"text", "blank"}}
  \cup {Form("codeFile", "main.js", maxFileSize, "text", ArchEmpty)}
  \cup {Form(f, "main.js", maxFileSize + 1, "text", ArchEmpty) : f \in {"codeFile", "other"}}
  \cup {Form("other", "main.js", 1000, "text", ArchEmpty)}
  \cup {Form("codeFile", "proj.zip", 1000, "text", z) :
          z \in {ArchEmpty, ArchOne, ArchTwo, ArchBadHeader, ArchBadEntry}}
  \cup {Form("codeFile", "PROJ.ZIP", 1000, "text", ArchOne)}
  \cup {Form("codeFile", "proj.zip", maxFileSize + 1, "text", ArchOne)}

\* req.body as the handler sees it: "undefined" (no body was parsed), or an object
\* whose code property is absent ("nocode"), a number, a blank string or a text.
Bodies == {"undefined", "nocode", "number", "blank", "text"}

Request(method, multipart, body, form) ==
  [method |-> method, multipart |-> multipart, body |-> body, form |-> form]

NoRequest == Request("", FALSE, "undefined", NoForm)

Requests ==
  {Request("GET", FALSE, "undefined", NoForm)}
  \cup {Request("POST", FALSE, b, NoForm) : b \in Bodies}
  \cup {Request("POST", TRUE, "undefined", f) : f \in Forms}

(***************************************************************************)
(* Names, paths and the directory walk (analyze.js 36-64).                 *)
(***************************************************************************)
\* The names that occur in archives, in the order readdir lists them.
DirEntryOrder ==
  <<"B.JS", "Dist", "a.js", "b.js", "c.js", "dist", "lib", "node_modules", "notes.txt", "sub">>

\* path.extname(name).toLowerCase()
ExtNameLower(name) ==
  CASE name \in {"a.js", "b.js", "c.js", "B.JS", "main.js"} -> ".js"
    [] name \in {"proj.zip", "PROJ.ZIP"} -> ".zip"
    [] name = "notes.txt" -> ".txt"
    [] OTHER -> ""

SUPPORTED_EXTENSIONS ==
  {".js", ".jsx", ".ts", ".tsx", ".html", ".css", ".py", ".java", ".cs", ".php",
   ".rb", ".go", ".rs", ".swift", ".kt", ".m", ".c", ".cpp", ".h", ".hpp"}

\* Mutant: the name is compared as it is written.
NameAsWritten(name) == name

\* entry.name.toLowerCase()
NameLower(name) ==
  CASE name = "PROJ.ZIP" -> "proj.zip"
    [] name = "B.JS" -> "b.js"
    [] name = "Dist" -> "dist"
    [] OTHER -> name

EXCLUDED_DIRS ==
  {"node_modules", "dist", "build", ".git", ".next", ".vercel", "coverage", "tmp",
   "public", ".yarn", "vendor"}

\* Mutant: the name is compared without lower-casing it.
EndsWithZipCaseSensitive(name) == name \in {"proj.zip"}

\* originalFileName.toLowerCase().endsWith('.zip')
EndsWithZip(name) == ExtNameLower(name) = ".zip"

IsPrefix(p, q) == Len(p) <= Len(q) /\ SubSeq(q, 1, Len(p)) = p

\* The names readdir(dirPath) lists.
EntryNames(files, dirPath) ==
  {q[Len(dirPath) + 1] : q \in {q \in DOMAIN files : IsPrefix(dirPath, q) /\ Len(q) > Len(dirPath)}}

RECURSIVE getCodeFilesFromDirectory(_, _), WalkEntries(_, _, _)

\* The loop over the entries of dirPath, from the i-th name of DirEntryOrder on.
WalkEntries(files, dirPath, i) ==
  IF i > Len(DirEntryOrder) THEN <<>>
  ELSE LET name == DirEntryOrder[i]
           fullPath == Append(dirPath, name)
           \* path.relative(dirPath, fullPath), dirPath being the directory of this call
           relativePath == <<name>>
           found ==
             IF name \notin EntryNames(files, dirPath) THEN <<>>
             ELSE IF fullPath \in DOMAIN files
             THEN IF ExtNameLower(name) \in SUPPORTED_EXTENSIONS
                  THEN <<[fullPath |-> fullPath, relativePath |-> relativePath,
                          size |-> files[fullPath].len]>>
                  ELSE <<>>
             ELSE IF NameLower(name) \notin EXCLUDED_DIRS
                  THEN getCodeFilesFromDirectory(files, fullPath)
                  ELSE <<>>
       IN found \o WalkEntries(files, dirPath, i + 1)

getCodeFilesFromDirectory(files, dirPath) == WalkEntries(files, dirPath, 1)

RECURSIVE SortBySizeDescUnstable(_)
\* Mutant: among files of equal size the one listed last comes first.
SortBySizeDescUnstable(list) ==
  IF list = <<>> THEN <<>>
  ELSE LET bigs == {i \in 1..Len(list) : \A j \in 1..Len(list) : list[j].size <= list[i].size}
           big == CHOOSE i \in bigs : \A j \in bigs : j <= i
       IN <<list[big]>> \o
          SortBySizeDescUnstable([k \in 1..(Len(list) - 1) |->
                                    IF k < big THEN list[k] ELSE list[k + 1]])

\* allCodeFiles.sort((a, b) => b.size - a.size): stable, largest first.
RECURSIVE SortBySizeDesc(_)
SortBySizeDesc(list) ==
  IF list = <<>> THEN <<>>
  ELSE LET big == Min({i \in 1..Len(list) : \A j \in 1..Len(list) : list[j].size <= list[i].size})
       IN <<list[big]>> \o
          SortBySizeDesc([k \in 1..(Len(list) - 1) |-> IF k < big THEN list[k] ELSE list[k + 1]])

(***************************************************************************)
(* The handler's local state and its responses.                            *)
(***************************************************************************)
\* analysisMessage: kind "pasted", "single", "zip" (processed n key files) or
\* "zipnone" (no supported code files found).
Message(kind, name, n) == [kind |-> kind, name |-> name, n |-> n]
NoMessage == Message("", "", 0)

\* A response: status 0 means that none was sent.  body is "text" (res.end),
\* "error" ({error}) or "analysis" ({analysis, parsed, message}); a string-valued
\* analysis would be [t |-> "text", text |-> the string].
Response(status, allow, body, error, parsed, analysis, message) ==
  [status |-> status, allow |-> allow, body |-> body, error |-> error,
   parsed |-> parsed, analysis |-> analysis, message |-> message]

NoResponse == Response(0, FALSE, "", "", FALSE, JNull, NoMessage)

ErrorBody(status, error) == Response(status, FALSE, "error", error, FALSE, JNull, NoMessage)

NoPath == [k |-> "none", id |-> 0]
FilePath(r) == [k |-> "file", id |-> r]
DirPath(t) == [k |-> "dir", id |-> t]

\* An exception: its message and its code property ("" when it has none).
Error(message, code) == [message |-> message, code |-> code]

\* error.message.includes("API key")
IncludesApiKey(message) == message \in {"API key not valid. Please pass a valid API key."}

\* The code property of the error formidable rejects an oversized file with
\* (biggerThanMaxFileSize / biggerThanTotalMaxFileSize, depending on the version).
FormidableSizeCodes == {"1009", "1016"}

\* No exception has reached the catch block.
NoError == Error("", "none")

\* What generateContent can reject with.
CompletionErrors ==
  {Error("API key not valid. Please pass a valid API key.", ""),
   Error("503 Service Unavailable", ""),
   Error("", "")}

InitialLocal ==
  [pc |-> "idle", tempCleanupPath |-> NoPath, tempExtractionDir |-> -1,
   allCodeFiles |-> <<>>, idx |-> 0, combinedCode |-> <<>>, combinedCodeLength |-> 0,
   filesAnalyzedCount |-> 0, userCode |-> "", analysisMessage |-> NoMessage,
   resp |-> NoResponse, sent |-> 0, calls |-> 0, formParsed |-> FALSE,
   reply |-> <<>>, cleanupFailed |-> FALSE, caught |-> NoError]

\* res.status(..).json(..) or .end(..), followed by the finally block (analyze.js
\* 253-268): with a tempCleanupPath the handler goes on to await fs.stat.
Respond(hr, response) ==
  [hr EXCEPT !.resp = response, !.sent = @ + 1,
             !.pc = IF hr.tempCleanupPath.k = "none" THEN "done" ELSE "cleanup"]

\* Mutant: the exception's own message is never forwarded.
ErrorResponseGeneric(error) ==
  LET errorMessage ==
        IF IncludesApiKey(error.message) THEN "Google AI API key is missing or invalid."
        ELSE "Failed to analyze code due to an internal server error."
  IN IF error.code = "LIMIT_FILE_SIZE"
     THEN ErrorBody(413, "File too large. Maximum allowed is 4.5MB.")
     ELSE ErrorBody(500, errorMessage)

\* The catch block (analyze.js 237-252).
ErrorResponse(error) ==
  LET errorMessage ==
        IF IncludesApiKey(error.message) THEN "Google AI API key is missing or invalid."
        ELSE IF error.message # "" THEN error.message
        ELSE "Failed to analyze code due to an internal server error."
  IN IF error.code = "LIMIT_FILE_SIZE"
     THEN ErrorBody(413, "File too large. Maximum allowed is 4.5MB.")
     ELSE ErrorBody(500, errorMessage)

\* Mutant: the catch block answers only exceptions that carry a message.
CatchUnanswered(hr, error) ==
  IF error.message = ""
  THEN [hr EXCEPT !.caught = error,
                  !.pc = IF hr.tempCleanupPath.k = "none" THEN "done" ELSE "cleanup"]
  ELSE Respond([hr EXCEPT !.caught = error], ErrorResponse(error))

Catch(hr, error) == Respond([hr EXCEPT !.caught = error], ErrorResponse(error))

\* !userCode || typeof userCode !== 'string' || userCode.trim() === '' (analyze.js 153)
\* userCode is "undefined", "number", "blank" (a string that trims to ''), "text",
\* "corpus" (the joined files of an archive) or "placeholder" (analyze.js 140-141).
InvalidCode(userCode) == userCode \notin {"text", "corpus", "placeholder"}

\* analyze.js 153-192: validation, then the prompt is built and generateContent
\* is called; the handler waits for the reply.
AfterInput(hr, userCode, message) ==
  LET hr1 == [hr EXCEPT !.userCode = userCode, !.analysisMessage = message]
  IN IF InvalidCode(userCode)
     THEN Respond(hr1, ErrorBody(400, "No code content found for analysis."))
     ELSE [hr1 EXCEPT !.pc = "calling", !.calls = @ + 1]

\* Mutant: without files the corpus is left empty.
FinishZipNoPlaceholder(hr, name) ==
  IF hr.filesAnalyzedCount > 0
  THEN AfterInput(hr, "corpus", Message("zip", name, hr.filesAnalyzedCount))
  ELSE AfterInput(hr, "blank", Message("zipnone", name, 0))

\* analyze.js 135-142: the corpus of an archive.
FinishZip(hr, name) ==
  IF hr.filesAnalyzedCount > 0
  THEN AfterInput(hr, "corpus", Message("zip", name, hr.filesAnalyzedCount))
  ELSE AfterInput(hr, "placeholder", Message("zipnone", name, 0))

\* Mutant: the method is not checked.
MethodAllowedAny(method) == TRUE

\* req.method !== 'POST' is answered 405 (analyze.js 71).
MethodAllowed(method) == method = "POST"

\* Mutant: the file is taken from whatever field carries one.
HasCodeFileAnyField(form) == form.field # "none"

\* files.codeFile ? ... : null (analyze.js 87): the form has a file under codeFile.
HasCodeFile(form) == form.field = "codeFile"

\* uploadedFile.originalFilename || 'uploaded_file'
OriginalFileName(form) == IF form.name = "" THEN "uploaded_file" ELSE form.name

\* zip.extractAllTo(dir, true): the entries are written over what the directory holds.
ExtractAllTo(files, entries, r) ==
  [p \in DOMAIN files \cup DOMAIN entries |->
     IF p \in DOMAIN entries THEN [owner |-> r, len |-> entries[p]] ELSE files[p]]

(***************************************************************************)
(* The replies of the completion service.                                  *)
(***************************************************************************)
EmptyLists ==
  <<"{", "bugs", ":", "[", "]", ",", "security_vulnerabilities", ":", "[", "]", ",",
    "improvements", ":", "[", "]", ",", "explanations", ":", "[", "]", "}">>
OneBug ==
  <<"{", "bugs", ":", "[", "{", "message", ":", "m1", "}", "]", ",",
    "security_vulnerabilities", ":", "[", "]", ",",
    "improvements", ":", "[", "]", ",", "explanations", ":", "[", "]", "}">>
NoImprovements ==
  <<"{", "bugs", ":", "[", "]", ",", "security_vulnerabilities", ":", "[", "]", ",",
    "explanations", ":", "[", "]", "}">>
NotAList ==
  <<"{", "bugs", ":", "null", ",", "security_vulnerabilities", ":", "[", "]", ",",
    "improvements", ":", "[", "]", ",", "explanations", ":", "[", "]", "}">>

Replies ==
  {EmptyLists,
   <<"fence_json", "ws">> \o OneBug \o <<"ws", "fence">>,
   OneBug,
   <<"prose", "ws">> \o NoImprovements,
   NotAList,
   <<"prose", "ws", "prose">>}

(***************************************************************************)
(* The page's state while only the server is observed.                     *)
(***************************************************************************)
NoData == [parsed |-> FALSE, analysis |-> JNull, message |-> NoMessage]

(***************************************************************************)
(* The handler (analyze.js 66-269), one action per stretch of code between *)
(* two awaits.                                                             *)
(***************************************************************************)
Init ==
  /\ now = 0
  /\ uploads = {}
  /\ dirs = {}
  /\ dirFiles = [t \in 0..MaxClock |-> NoFiles]
  /\ req = [r \in Req |-> NoRequest]
  /\ h = [r \in Req |-> InitialLocal]
  /\ data = NoData
  /\ issues = <<>>
  /\ uiPc = "off"
  /\ page = InitialPage

\* Time passes.
Tick ==
  /\ now < MaxClock
  /\ now' = now + 1
  /\ UNCHANGED <<uploads, dirs, dirFiles, req, h, pageVars>>

\* analyze.js 71-91 and 148-192: the handler up to its first await.
Receive(r, q) ==
  /\ h[r].pc = "idle"
  /\ req' = [req EXCEPT ![r] = q]
  /\ h' = [h EXCEPT ![r] =
            IF ~MethodAllowed(q.method)
            THEN [@ EXCEPT !.resp = Response(405, TRUE, "text", "", FALSE, JNull, NoMessage),
                           !.sent = @ + 1, !.pc = "done"]
            ELSE IF q.multipart
            THEN [@ EXCEPT !.pc = "parsing", !.formParsed = TRUE]
            ELSE IF q.body = "undefined"
            THEN Catch(@, Error("Cannot read properties of undefined (reading 'code')", ""))
            ELSE AfterInput(@, IF q.body = "nocode" THEN "undefined" ELSE q.body,
                            Message("pasted", "", 0))]
  /\ UNCHANGED <<now, uploads, dirs, dirFiles, pageVars>>

\* analyze.js 19-34 and 86-100: formidable has written the files of the form to
\* os.tmpdir() and parseForm settles; an oversized file makes it reject, and
\* formidable then removes what it wrote.
ParseForm(r) ==
  LET form == req[r].form
      hr == [h[r] EXCEPT !.tempCleanupPath = FilePath(r)]
  IN /\ h[r].pc = "parsing"
     /\ IF form.field # "none" /\ form.size > maxFileSize
        THEN /\ \E code \in FormidableSizeCodes :
                  h' = [h EXCEPT ![r] =
                          Catch(@, Error("options.maxFileSize exceeded", code))]
             /\ UNCHANGED uploads
        ELSE /\ uploads' = IF form.field = "none" THEN uploads ELSE uploads \cup {r}
             /\ h' = [h EXCEPT ![r] =
                       IF ~HasCodeFile(form)
                       THEN Respond(@, ErrorBody(400, "No file uploaded."))
                       ELSE IF EndsWithZip(OriginalFileName(form))
                       THEN IF form.zip.state = "badHeader"
                            THEN Catch(hr, Error("Invalid or unsupported zip format", ""))
                            ELSE [hr EXCEPT !.tempExtractionDir = now, !.pc = "mkdir"]
                       ELSE [hr EXCEPT !.pc = "readSingle"]]
     /\ UNCHANGED <<now, dirs, dirFiles, req, pageVars>>

\* analyze.js 100-105: mkdir has settled; the archive is extracted.
Mkdir(r) ==
  LET d == h[r].tempExtractionDir
      zip == req[r].form.zip
  IN /\ h[r].pc = "mkdir"
     /\ dirs' = dirs \cup {d}
     /\ IF zip.state = "badEntry"
        THEN /\ h' = [h EXCEPT ![r] = Catch(@, Error("Invalid LOC header (bad signature)", ""))]
             /\ UNCHANGED dirFiles
        ELSE /\ dirFiles' = [dirFiles EXCEPT ![d] = ExtractAllTo(@, zip.entries, r)]
             /\ h' = [h EXCEPT ![r] = [@ EXCEPT !.tempCleanupPath = DirPath(d), !.pc = "walk"]]
     /\ UNCHANGED <<now, uploads, req, pageVars>>

\* analyze.js 105-116: the directory is listed (a directory that cannot be read
\* yields no files), the list is sorted and the first file is requested.
Walk(r) ==
  LET d == h[r].tempExtractionDir
      files == IF d \in dirs THEN dirFiles[d] ELSE NoFiles
      all == SortBySizeDesc(getCodeFilesFromDirectory(files, <<>>))
  IN /\ h[r].pc = "walk"
     /\ h' = [h EXCEPT ![r] =
               IF all = <<>>
               THEN FinishZip(@, OriginalFileName(req[r].form))
               ELSE [@ EXCEPT !.allCodeFiles = all, !.idx = 1, !.pc = "reading"]]
     /\ UNCHANGED <<now, uploads, dirs, dirFiles, req, pageVars>>

\* Mutant: a file that does not fit is skipped and the loop goes on.
ReadFileSkipping(r) ==
  LET d == h[r].tempExtractionDir
      fileObj == h[r].allCodeFiles[h[r].idx]
      name == OriginalFileName(req[r].form)
  IN /\ h[r].pc = "reading"
     /\ h' = [h EXCEPT ![r] =
               IF d \notin dirs \/ fileObj.fullPath \notin DOMAIN dirFiles[d]
               THEN Catch(@, Error("ENOENT: no such file or directory", "ENOENT"))
               ELSE LET fileContent == dirFiles[d][fileObj.fullPath]
                    IN \* combinedCodeLength + length / 4 < MAX_CONTEXT_LENGTH, in characters
                       IF @.combinedCodeLength + fileContent.len < 4 * MAX_CONTEXT_LENGTH
                       THEN LET hr == [@ EXCEPT
                                        !.combinedCode =
                                           Append(@, [relativePath |-> fileObj.relativePath,
                                                      owner |-> fileContent.owner,
                                                      len |-> fileContent.len]),
                                        !.combinedCodeLength = @ + fileContent.len,
                                        !.filesAnalyzedCount = @ + 1]
                            IN IF hr.idx = Len(hr.allCodeFiles)
                               THEN FinishZip(hr, name)
                               ELSE [hr EXCEPT !.idx = @ + 1]
                       ELSE IF @.idx = Len(@.allCodeFiles)
                            THEN FinishZip(@, name)
                            ELSE [@ EXCEPT !.idx = @ + 1]]
     /\ UNCHANGED <<now, uploads, dirs, dirFiles, req, pageVars>>

\* analyze.js 116-133: readFile of the current file has settled.
ReadFile(r) ==
  LET d == h[r].tempExtractionDir
      fileObj == h[r].allCodeFiles[h[r].idx]
      name == OriginalFileName(req[r].form)
  IN /\ h[r].pc = "reading"
     /\ h' = [h EXCEPT ![r] =
               IF d \notin dirs \/ fileObj.fullPath \notin DOMAIN dirFiles[d]
               THEN Catch(@, Error("ENOENT: no such file or directory", "ENOENT"))
               ELSE LET fileContent == dirFiles[d][fileObj.fullPath]
                    IN \* combinedCodeLength + length / 4 < MAX_CONTEXT_LENGTH, in characters
                       IF @.combinedCodeLength + fileContent.len < 4 * MAX_CONTEXT_LENGTH
                       THEN LET hr == [@ EXCEPT
                                        !.combinedCode =
                                           Append(@, [relativePath |-> fileObj.relativePath,
                                                      owner |-> fileContent.owner,
                                                      len |-> fileContent.len]),
                                        !.combinedCodeLength = @ + fileContent.len,
                                        !.filesAnalyzedCount = @ + 1]
                            IN IF hr.idx = Len(hr.allCodeFiles)
                               THEN FinishZip(hr, name)
                               ELSE [hr EXCEPT !.idx = @ + 1]
                       ELSE FinishZip(@, name)]
     /\ UNCHANGED <<now, uploads, dirs, dirFiles, req, pageVars>>

\* analyze.js 145-146: readFile of the uploaded single file has settled.
ReadSingle(r) ==
  /\ h[r].pc = "readSingle"
  /\ h' = [h EXCEPT ![r] =
            IF r \notin uploads
            THEN Catch(@, Error("ENOENT: no such file or directory", "ENOENT"))
            ELSE AfterInput(@, req[r].form.content,
                            Message("single", OriginalFileName(req[r].form), 0))]
  /\ UNCHANGED <<now, uploads, dirs, dirFiles, req, pageVars>>

\* analyze.js 192-235: generateContent settles with a reply ...
CompleteReply(r, text) ==
  LET e == ExtractAnalysis(text)
  IN /\ h[r].pc = "calling"
     /\ h' = [h EXCEPT ![r] =
               Respond([@ EXCEPT !.reply = text],
                       Response(200, FALSE, "analysis", "", e.parsed, e.analysis,
                                @.analysisMessage))]
     /\ UNCHANGED <<now, uploads, dirs, dirFiles, req, pageVars>>

\* Mutant: a failed completion call is issued a second time.
CompleteErrorRetry(r, error) ==
  /\ h[r].pc = "calling"
  /\ h' = [h EXCEPT ![r] = IF @.calls < 2 THEN [@ EXCEPT !.calls = @ + 1] ELSE Catch(@, error)]
  /\ UNCHANGED <<now, uploads, dirs, dirFiles, req, pageVars>>

\* ... or rejects.
CompleteError(r, error) ==
  /\ h[r].pc = "calling"
  /\ h' = [h EXCEPT ![r] = Catch(@, error)]
  /\ UNCHANGED <<now, uploads, dirs, dirFiles, req, pageVars>>

\* Mutant: a failure of the cleanup is answered with a second response.
CleanupSurfacing(r, fails) ==
  LET path == h[r].tempCleanupPath
      exists == IF path.k = "dir" THEN path.id \in dirs ELSE path.id \in uploads
  IN /\ h[r].pc = "cleanup"
     /\ h' = [h EXCEPT ![r] =
               IF fails \/ ~exists
               THEN [@ EXCEPT !.pc = "done", !.cleanupFailed = TRUE, !.sent = @ + 1,
                              !.resp = ErrorBody(500, "Failed to clean up.")]
               ELSE [@ EXCEPT !.pc = "done"]]
     /\ IF fails \/ ~exists
        THEN UNCHANGED <<uploads, dirs, dirFiles>>
        ELSE IF path.k = "dir"
        THEN /\ dirs' = dirs \ {path.id}
             /\ dirFiles' = [dirFiles EXCEPT ![path.id] = NoFiles]
             /\ UNCHANGED uploads
        ELSE /\ uploads' = uploads \ {path.id}
             /\ UNCHANGED <<dirs, dirFiles>>
     /\ UNCHANGED <<now, req, pageVars>>

\* analyze.js 253-268: the finally block; a failure of stat, rm or unlink is logged.
Cleanup(r, fails) ==
  LET path == h[r].tempCleanupPath
      exists == IF path.k = "dir" THEN path.id \in dirs ELSE path.id \in uploads
  IN /\ h[r].pc = "cleanup"
     /\ h' = [h EXCEPT ![r] = [@ EXCEPT !.pc = "done",
                                        !.cleanupFailed = fails \/ ~exists]]
     /\ IF fails \/ ~exists
        THEN UNCHANGED <<uploads, dirs, dirFiles>>
        ELSE IF path.k = "dir"
        THEN /\ dirs' = dirs \ {path.id}
             /\ dirFiles' = [dirFiles EXCEPT ![path.id] = NoFiles]
             /\ UNCHANGED uploads
        ELSE /\ uploads' = uploads \ {path.id}
             /\ UNCHANGED <<dirs, dirFiles>>
     /\ UNCHANGED <<now, req, pageVars>>

Next ==
  \/ Tick
  \/ \E r \in Req, q \in Requests : Receive(r, q)
  \/ \E r \in Req : ParseForm(r)
  \/ \E r \in Req : Mkdir(r)
  \/ \E r \in Req : Walk(r)
  \/ \E r \in Req : ReadFile(r)
  \/ \E r \in Req : ReadSingle(r)
  \/ \E r \in Req, text \in Replies : CompleteReply(r, text)
  \/ \E r \in Req, error \in CompletionErrors : CompleteError(r, error)
  \/ \E r \in Req, fails \in BOOLEAN : Cleanup(r, fails)

Spec == Init /\ [][Next]_vars

(***************************************************************************)
(* Properties of the handler.                                              *)
(***************************************************************************)
Done(r) == h[r].pc = "done"
IsMultipartPost(r) == req[r].method = "POST" /\ req[r].multipart
IsJsonPost(r) == req[r].method = "POST" /\ ~req[r].multipart
\* The form holds a file larger than maxFileSize.
Oversized(form) == form.field # "none" /\ form.size > maxFileSize
\* The completion service replied to request r.
Replied(r) == h[r].reply # <<>>

\* C1: after a request has completed, no file or directory created for it remains
\* on disk: neither the upload file formidable wrote nor the extraction directory.
C1_NoTempLeftAfterRequest ==
  \A r \in Req :
    (Done(r) /\ ~h[r].cleanupFailed) =>
      /\ r \notin uploads
      /\ h[r].tempExtractionDir >= 0 => h[r].tempExtractionDir \notin dirs

\* C2: whenever response extraction fails, the handler answers 200 with parsed=false
\* and analysis equal to the completion service's original reply text.
C2_RawReplyKeptOnExtractionFailure ==
  \A r \in Req :
    (Replied(r) /\ ~ExtractAnalysis(h[r].reply).parsed) =>
      /\ h[r].resp.status = 200
      /\ h[r].resp.parsed = FALSE
      /\ h[r].resp.analysis = [t |-> "text", text |-> h[r].reply]

\* analysis is an object whose four keys are all lists.
IsAnalysisObject(v) == \A key \in RequiredKeys : HasList(v, key)

\* C3: a pasted-code request with a non-blank code string that got a reply is
\* answered 200; parsed is true exactly when analysis is an object with the four
\* list-valued keys, and when parsed is false analysis is a string.
C3_PastedCodeResponseShape ==
  \A r \in Req :
    (IsJsonPost(r) /\ req[r].body = "text" /\ Replied(r)) =>
      /\ h[r].resp.status = 200
      /\ h[r].resp.parsed <=> IsAnalysisObject(h[r].resp.analysis)
      /\ ~h[r].resp.parsed => h[r].resp.analysis.t = "text"

\* C4: a multipart upload whose file exceeds 4.5 MB is answered 413 with the fixed
\* size-limit message, whatever the file holds, and never 500.
C4_OversizedUploadIs413 ==
  \A r \in Req :
    (IsMultipartPost(r) /\ Oversized(req[r].form) /\ h[r].resp.status # 0) =>
      h[r].resp = ErrorBody(413, "File too large. Maximum allowed is 4.5MB.")

\* C5: a non-multipart POST with an absent body, or whose code is absent, not a
\* string or blank, is answered 400 with an {error} body and the completion
\* service is not called.
C5_MissingCodeIs400 ==
  \A r \in Req :
    (IsJsonPost(r) /\ req[r].body # "text" /\ h[r].pc # "idle") =>
      /\ h[r].resp.status = 400
      /\ h[r].resp.body = "error"
      /\ h[r].calls = 0

\* C6: a request whose method is not POST is answered 405 with Allow: POST; no
\* body is parsed, no temporary file or directory is created and the completion
\* service is not called.
C6_NonPostIs405 ==
  \A r \in Req :
    (h[r].pc # "idle" /\ req[r].method # "POST") =>
      /\ Done(r)
      /\ h[r].resp.status = 405
      /\ h[r].resp.allow
      /\ ~h[r].formParsed
      /\ r \notin uploads
      /\ h[r].tempExtractionDir = -1
      /\ h[r].calls = 0

C6_Witness ==
  \E r \in Req : req[r].method = "GET" /\ Done(r) /\ h[r].resp.status = 405 /\ h[r].sent = 1

\* C7 as stated: a multipart POST that carries no file under codeFile is answered
\* 400 "No file uploaded." and the completion service is not called.
C7_Original_NoCodeFileIs400 ==
  \A r \in Req :
    (IsMultipartPost(r) /\ ~HasCodeFile(req[r].form) /\ h[r].resp.status # 0) =>
      /\ h[r].resp = ErrorBody(400, "No file uploaded.")
      /\ h[r].calls = 0

\* C7 as amended: a multipart POST whose form formidable parses without error
\* (no file over the size limit) and that carries no file under codeFile is
\* answered 400 "No file uploaded." and the completion service is not called.
C7_ParsedFormWithoutCodeFileIs400 ==
  \A r \in Req :
    (IsMultipartPost(r) /\ ~(req[r].form.field = "codeFile") /\ ~Oversized(req[r].form)
       /\ h[r].resp.status # 0) =>
      /\ h[r].resp = ErrorBody(400, "No file uploaded.")
      /\ h[r].calls = 0

C7_Witness ==
  \E r \in Req :
    /\ IsMultipartPost(r) /\ req[r].form.field = "other" /\ ~Oversized(req[r].form)
    /\ Done(r) /\ h[r].resp.status = 400

\* Request r holds an extraction directory it has not yet cleaned up.
UsesDir(r) == h[r].tempExtractionDir >= 0 /\ ~Done(r)

\* C8: concurrent zip uploads each use their own extraction directory: no two
\* requests extract into the same directory, no corpus contains files of another
\* request's archive, and no cleanup removes files another request still reads.
C8_IsolatedExtractionDirs ==
  /\ \A r1, r2 \in Req :
       (r1 # r2 /\ UsesDir(r1) /\ UsesDir(r2)) =>
         h[r1].tempExtractionDir # h[r2].tempExtractionDir
  /\ \A r \in Req : \A i \in 1..Len(h[r].combinedCode) : h[r].combinedCode[i].owner = r
  /\ \A r \in Req : h[r].resp.error # "ENOENT: no such file or directory"

\* C9: the completion service is called at most once per request: exactly once
\* for a request that passed input resolution and validation, never for a request
\* answered 400, 405 or 413, and not again after it failed.
C9_CompletionCalledOnce ==
  \A r \in Req :
    /\ h[r].calls <= 1
    /\ h[r].calls = 1 <=> ~InvalidCode(h[r].userCode)
    /\ h[r].resp.status \in {400, 405, 413} => h[r].calls = 0

C9_Witness ==
  \E r \in Req : Done(r) /\ h[r].calls = 1 /\ h[r].resp.status = 500 /\ ~Replied(r)

(***************************************************************************)
(* The page's result normalizer (Home.jsx 125-335).                        *)
(***************************************************************************)
\* The strings generateUniqueId can return (Home.jsx 21-23: two Math.random()
\* values in base 36).
RandomIds == 1..NumRand

\* An issue id: `${prefix}-${index}-${rand}`, or the bare random string of the
\* raw and error issues (prefix "", index -1).
IssueId(prefix, index, rand) == [prefix |-> prefix, index |-> index, rand |-> rand]

\* entry[key] || fallback, for the string-valued fields of a finding.
FieldOr(entry, key, fallback) ==
  IF entry.t = "obj" /\ key \in DOMAIN entry.m /\ entry.m[key].t = "str"
  THEN entry.m[key].s
  ELSE fallback

Categories == <<"bugs", "security_vulnerabilities", "improvements", "explanations">>

IdPrefix(category) ==
  CASE category = "bugs" -> "bug"
    [] category = "security_vulnerabilities" -> "sec"
    [] category = "improvements" -> "imp"
    [] category = "explanations" -> "exp"

IssueType(category) ==
  CASE category = "bugs" -> "Bug"
    [] category = "security_vulnerabilities" -> "Security Vulnerability"
    [] category = "improvements" -> "Improvement"
    [] category = "explanations" -> "Explanation"

DefaultSeverity(category) ==
  CASE category = "bugs" -> "high"
    [] category = "security_vulnerabilities" -> "critical"
    [] category = "improvements" -> "medium"
    [] category = "explanations" -> "info"

\* data.analysis[category]
ListOf(analysis, category) == analysis.m[category].items

RECURSIVE TotalBefore(_, _)
\* Number of findings in the first k categories.
TotalBefore(analysis, k) ==
  IF k = 0 THEN 0 ELSE TotalBefore(analysis, k - 1) + Len(ListOf(analysis, Categories[k]))

\* One forEach loop (Home.jsx 194-203, 257-267, ...): an issue per entry; the calls
\* of generateUniqueId made by the loop return rnd[base + 1], rnd[base + 2], ...
\* filePath is "" in the loops that do not set it.
CategoryIssues(analysis, category, rnd, base, withPath, currentAnalysisFilePath) ==
  LET items == ListOf(analysis, category)
  IN [i \in 1..Len(items) |->
        [id |-> IssueId(IdPrefix(category), i - 1, rnd[base + i]),
         type |-> IssueType(category),
         message |-> <<FieldOr(items[i], "message", "undefined")>>,
         line |-> FieldOr(items[i], "line", "N/A"),
         severity |-> FieldOr(items[i], "severity", DefaultSeverity(category)),
         suggestedFix |-> FieldOr(items[i], "suggestedFix", "null"),
         filePath |-> IF withPath
                      THEN FieldOr(items[i], "filePath", currentAnalysisFilePath)
                      ELSE ""]]

\* The four loops in source order.
AllCategoryIssues(analysis, rnd, base, withPath, path) ==
  CategoryIssues(analysis, Categories[1], rnd, base, withPath, path)
  \o CategoryIssues(analysis, Categories[2], rnd, base + TotalBefore(analysis, 1), withPath, path)
  \o CategoryIssues(analysis, Categories[3], rnd, base + TotalBefore(analysis, 2), withPath, path)
  \o CategoryIssues(analysis, Categories[4], rnd, base + TotalBefore(analysis, 3), withPath, path)

\* Home.jsx 248-253: the label derived from data.message.
CurrentAnalysisFilePath(message) ==
  IF message.kind = "single" THEN message.name ELSE "Pasted Code"

\* The number of calls of generateUniqueId made for a response.
NumIdCalls(d) ==
  IF ~d.parsed THEN 1
  ELSE IF TotalBefore(d.analysis, 4) = 0 THEN 1
  ELSE 2 * TotalBefore(d.analysis, 4)

\* ${data.analysis} in a template literal (Home.jsx 313): a string is inserted as
\* it is, an object is rendered by Object.prototype.toString.
TemplateString(v) ==
  CASE v.t = "str" -> <<v.s>>
    [] v.t = "null" -> <<"null">>
    [] OTHER -> <<"[object Object]">>

\* The general info issue (Home.jsx 239-245).
InfoIssue(rand) ==
  [id |-> IssueId("no-issues", -1, rand), type |-> "AI Analysis",
   message |-> <<"No significant issues or improvements found. Code looks good!">>,
   line |-> "N/A", severity |-> "info", suggestedFix |-> "", filePath |-> ""]

\* Mutant: the info issue is pushed when the bugs list is empty, whatever the
\* other lists hold.
BuildIssuesInfoOnNoBugs(d, rnd) ==
  IF d.parsed
  THEN LET firstPass == AllCategoryIssues(d.analysis, rnd, 0, FALSE, "")
       IN (IF Len(ListOf(d.analysis, "bugs")) = 0 THEN <<InfoIssue(rnd[1])>> ELSE <<>>)
          \o firstPass
  ELSE <<>>

\* newIssues for a response body (Home.jsx 192-319); rnd are the values the
\* successive calls of generateUniqueId return.
BuildIssues(d, rnd) ==
  IF d.parsed
  THEN LET firstPass == AllCategoryIssues(d.analysis, rnd, 0, FALSE, "")
           withInfo == IF Len(firstPass) = 0 THEN <<InfoIssue(rnd[1])>> ELSE firstPass
       IN withInfo \o AllCategoryIssues(d.analysis, rnd, Len(firstPass), TRUE,
                                        CurrentAnalysisFilePath(d.message))
  ELSE <<[id |-> IssueId("", -1, rnd[1]), type |-> "AI Analysis (Raw)",
          message |-> <<"The AI response could not be fully parsed into structured categories. Here is the raw analysis:", "ws">>
                        \o TemplateString(d.analysis),
          line |-> "N/A", severity |-> "info", suggestedFix |-> "", filePath |-> ""]>>

\* Findings as the completion service writes them.
Findings ==
  {JObj([k \in {"message"} |-> JStr("m1")]),
   JObj([k \in {"message", "severity"} |-> IF k = "message" THEN JStr("m2") ELSE JStr("low")])}

RECURSIVE SeqsUpTo(_, _)
\* The sequences over S of length at most n.
SeqsUpTo(S, n) ==
  IF n = 0 THEN {<<>>}
  ELSE SeqsUpTo(S, n - 1) \cup {Append(q, x) : q \in {q \in SeqsUpTo(S, n - 1) : Len(q) = n - 1}, x \in S}

\* The analysis objects with at most MaxFindings findings in all.
Analyses ==
  {JObj([k \in RequiredKeys |-> JArr(f[k])]) :
     f \in {f \in [RequiredKeys -> SeqsUpTo(Findings, MaxFindings)] :
              Len(f["bugs"]) + Len(f["security_vulnerabilities"])
                + Len(f["improvements"]) + Len(f["explanations"]) <= MaxFindings}}

\* The bodies of the 200 responses the page can receive.
PageData ==
  {[parsed |-> TRUE, analysis |-> a, message |-> m] :
     a \in Analyses, m \in {Message("pasted", "", 0)}}
  \cup {[parsed |-> FALSE, analysis |-> EmptyAnalysis, message |-> Message("pasted", "", 0)]}

InitPage ==
  /\ now = 0
  /\ uploads = {}
  /\ dirs = {}
  /\ dirFiles = [t \in 0..MaxClock |-> NoFiles]
  /\ req = [r \in Req |-> NoRequest]
  /\ h = [r \in Req |-> InitialLocal]
  /\ data = NoData
  /\ issues = <<>>
  /\ uiPc = "idle"
  /\ page = InitialPage

\* Home.jsx 161-175: setIsLoading(true), setIssues([]), the request is sent.
StartAnalysis ==
  /\ uiPc = "idle"
  /\ uiPc' = "loading"
  /\ issues' = <<>>
  /\ data' = NoData
  /\ UNCHANGED <<serverVars, page>>

\* Home.jsx 182-321 and 332-334: a 200 response arrived, the issue list is built
\* and shown.
ShowAnalysis(d, rnd) ==
  /\ uiPc = "loading"
  /\ data' = d
  /\ issues' = BuildIssues(d, rnd)
  /\ uiPc' = "idle"
  /\ UNCHANGED <<serverVars, page>>

\* Some 200 response arrives while the page waits for one.
ShowSomeAnalysis ==
  /\ uiPc = "loading"
  /\ \E d \in PageData : \E rnd \in [1..NumIdCalls(d) -> RandomIds] : ShowAnalysis(d, rnd)

NextPage ==
  \/ StartAnalysis
  \/ ShowSomeAnalysis

SpecPage == InitPage /\ [][NextPage]_vars

Shown == uiPc = "idle" /\ data # NoData

\* Number of issues of a type in the list.
CountOfType(list, type) == Cardinality({i \in 1..Len(list) : list[i].type = type})

\* C11: for a parsed response the normalizer emits exactly one issue per entry of
\* each of the four lists.
C11_OneIssuePerEntry ==
  (Shown /\ data.parsed) =>
    /\ CountOfType(issues, "Bug") = Len(data.analysis.m["bugs"].items)
    /\ CountOfType(issues, "Security Vulnerability")
         = Len(data.analysis.m["security_vulnerabilities"].items)
    /\ CountOfType(issues, "Improvement") = Len(data.analysis.m["improvements"].items)
    /\ CountOfType(issues, "Explanation") = Len(data.analysis.m["explanations"].items)

\* The four lists of the response are all empty.
AllListsEmpty(analysis) == \A k \in RequiredKeys : analysis.m[k].items = <<>>

PageRequests ==
  {q \in Requests :
     /\ q.method = "POST"
     /\ \/ q.multipart /\ q.form.field = "codeFile" /\ q.body = "undefined"
        \/ ~q.multipart /\ q.body = "text" /\ q.form = NoForm}

\* The issue of the catch block (Home.jsx 323-331).
ErrorIssue(message, rand) ==
  [id |-> IssueId("", -1, rand), type |-> "Error",
   message |-> <<IF message # "" THEN message ELSE "An unknown error occurred during analysis.">>,
   line |-> "N/A", severity |-> "high", suggestedFix |-> "", filePath |-> ""]

\* response.json() of a 200 response (Home.jsx 182).
DataOf(response) ==
  [parsed |-> response.parsed, analysis |-> response.analysis, message |-> response.message]

InitE2E ==
  /\ now = 0
  /\ uploads = {}
  /\ dirs = {}
  /\ dirFiles = [t \in 0..MaxClock |-> NoFiles]
  /\ req = [r \in Req |-> NoRequest]
  /\ h = [r \in Req |-> InitialLocal]
  /\ data = NoData
  /\ issues = <<>>
  /\ uiPc = "idle"
  /\ page = InitialPage

\* Home.jsx 161-175: the page starts an analysis; the handler of the previous
\* request has returned and a new invocation will serve this one.
StartRequest ==
  /\ uiPc = "idle"
  /\ h[1].pc \in {"idle", "done"}
  /\ uiPc' = "loading"
  /\ issues' = <<>>
  /\ data' = NoData
  /\ h' = [h EXCEPT ![1] = InitialLocal]
  /\ req' = [req EXCEPT ![1] = NoRequest]
  /\ UNCHANGED <<now, uploads, dirs, dirFiles, page>>

\* The request of the page reaches the handler.
Deliver(q) ==
  /\ uiPc = "loading"
  /\ req[1] = NoRequest
  /\ Receive(1, q)

\* The number of generateUniqueId calls made for a response.
NumIdCallsFor(response) ==
  IF response.status = 200 THEN NumIdCalls(DataOf(response)) ELSE 1

\* Home.jsx 175-334: the response arrived; a 200 response is normalized, any other
\* one is thrown as an Error and shown by the catch block.
ShowResponse ==
  LET response == h[1].resp
  IN /\ uiPc = "loading"
     /\ h[1].sent >= 1
     /\ \E rnd \in [1..NumIdCallsFor(response) -> RandomIds] :
          IF response.status = 200
          THEN /\ data' = DataOf(response)
               /\ issues' = BuildIssues(DataOf(response), rnd)
          ELSE /\ data' = NoData
               /\ issues' = <<ErrorIssue(IF response.error # "" THEN response.error
                                         ELSE "HTTP error! status", rnd[1])>>
     /\ uiPc' = "idle"
     /\ UNCHANGED <<serverVars, page>>

NextE2E ==
  \/ Tick
  \/ StartRequest
  \/ \E q \in PageRequests : Deliver(q)
  \/ ParseForm(1)
  \/ Mkdir(1)
  \/ Walk(1)
  \/ ReadFile(1)
  \/ ReadSingle(1)
  \/ \E text \in Replies : CompleteReply(1, text)
  \/ \E error \in CompletionErrors : CompleteError(1, error)
  \/ \E fails \in BOOLEAN : Cleanup(1, fails)
  \/ ShowResponse

SpecE2E == InitE2E /\ [][NextE2E]_vars

\* C13: when the handler reports parsed = false, the page shows exactly one issue,
\* of type "AI Analysis (Raw)" and severity "info", whose message contains the
\* whole reply of the completion service.
C13_RawIssueCarriesReply ==
  (Shown /\ h[1].resp.status = 200 /\ ~data.parsed) =>
    /\ Len(issues) = 1
    /\ issues[1].type = "AI Analysis (Raw)"
    /\ issues[1].severity = "info"
    /\ \E i \in 1..Len(issues[1].message) :
         /\ i + Len(h[1].reply) - 1 <= Len(issues[1].message)
         /\ SubText(issues[1].message, i, i + Len(h[1].reply) - 1) = h[1].reply

\* The request's upload has passed the codeFile test (analyze.js 93).
HasUpload(r) == IsMultipartPost(r) /\ h[r].tempCleanupPath # NoPath

\* The original names whose last four characters are ".zip" in some letter case.
ZipNames == {"proj.zip", "PROJ.ZIP"}

\* The handler took the archive branch: it constructed the archive reader, which
\* either threw or was followed by the extraction directory.
RoutedToArchive(r) ==
  \/ h[r].tempExtractionDir >= 0
  \/ h[r].resp.error = "Invalid or unsupported zip format"

\* The handler took the single-file branch: it reads the upload as text.
RoutedToSingleFile(r) ==
  /\ h[r].tempExtractionDir < 0
  /\ \/ h[r].pc = "readSingle"
     \/ h[r].userCode = req[r].form.content /\ h[r].analysisMessage.kind = "single"

CorruptZipCaught(r) ==
  h[r].caught.message \in {"Invalid or unsupported zip format",
                           "Invalid LOC header (bad signature)"}

\* The exception came from the completion call.
CompletionFailed(r) == h[r].calls = 1 /\ h[r].caught # NoError

GenericMessage == "Failed to analyze code due to an internal server error."
CredentialMessage == "Google AI API key is missing or invalid."

\* C15 as stated: a corrupt zip is answered 500 with the generic message, a failed
\* completion call 500 with the credential message when the cause is a credential
\* problem and the generic message otherwise; the exception's text is not sent.
C15_Original_GenericErrorMessages ==
  \A r \in Req :
    /\ CorruptZipCaught(r) => h[r].resp = ErrorBody(500, GenericMessage)
    /\ CompletionFailed(r) =>
         h[r].resp = ErrorBody(500,
                       IF h[r].caught.message = "API key not valid. Please pass a valid API key."
                       THEN CredentialMessage ELSE GenericMessage)

\* C15 as the code has it: a corrupt zip is answered 500 with the exception's own
\* message; a failed completion call is answered 500 with the credential message
\* when the exception's message mentions "API key", with the exception's own
\* message when it has another one, and with the generic message when it has none.
C15_ErrorMessages ==
  \A r \in Req :
    /\ CorruptZipCaught(r) => h[r].resp = ErrorBody(500, h[r].caught.message)
    /\ CompletionFailed(r) =>
         h[r].resp = ErrorBody(500,
                       CASE h[r].caught.message = "API key not valid. Please pass a valid API key."
                              -> CredentialMessage
                         [] h[r].caught.message = "503 Service Unavailable"
                              -> "503 Service Unavailable"
                         [] OTHER -> GenericMessage)

C15_Witness ==
  \E r \in Req :
    /\ CompletionFailed(r)
    /\ h[r].resp = ErrorBody(500, "503 Service Unavailable")
    /\ \E r2 \in Req : CorruptZipCaught(r2) /\ h[r2].resp.status = 500

\* C16: when the temporary path cannot be inspected or deleted during cleanup, the
\* failure is only logged: the response already produced is unchanged, no second
\* response is sent, and the handler returns.
C16_CleanupFailureOnlyLogged ==
  [][\A r \in Req :
       (h[r].pc = "cleanup" /\ h'[r].cleanupFailed) =>
         /\ h'[r].resp = h[r].resp
         /\ h'[r].sent = h[r].sent
         /\ h[r].sent = 1
         /\ h'[r].pc = "done"]_vars

C16_Witness ==
  \E r \in Req :
    /\ Done(r) /\ h[r].cleanupFailed
    /\ h[r].resp.status = 200 /\ h[r].sent = 1
    /\ \E r2 \in Req : Done(r2) /\ h[r2].cleanupFailed /\ h[r2].resp.status = 500

(***************************************************************************)
(* One archive upload, from the request to the cleanup, over archives      *)
(* with nested directories, excluded directories, unsupported files and    *)
(* files whose lengths meet the context budget.                            *)
(***************************************************************************)
\* The most files an archive holds.
MaxTreeFiles == 2

\* The paths the files of an archive are taken from.
PathUniverse ==
  {<<"a.js">>, <<"B.JS">>, <<"notes.txt">>, <<"lib", "b.js">>, <<"lib", "sub", "c.js">>,
   <<"node_modules", "a.js">>, <<"Dist", "a.js">>, <<"lib", "dist", "b.js">>}

\* The lengths of the files: short, four characters short of what fills
\* MAX_CONTEXT_LENGTH tokens at four characters a token, and exactly that.
FileSizes == {4, 4 * MAX_CONTEXT_LENGTH - 4, 4 * MAX_CONTEXT_LENGTH}

\* The entries of the archives.
Trees ==
  UNION {[P -> FileSizes] : P \in {P \in SUBSET PathUniverse : Cardinality(P) <= MaxTreeFiles}}

\* The upload of an archive with the given entries.
ZipRequest(tree) ==
  Request("POST", TRUE, "undefined",
          Form("codeFile", "proj.zip", 1000, "text", [state |-> "ok", entries |-> tree]))

NextZip ==
  \/ \E tree \in Trees : Receive(1, ZipRequest(tree))
  \/ ParseForm(1)
  \/ Mkdir(1)
  \/ Walk(1)
  \/ ReadFile(1)
  \/ \E text \in Replies : CompleteReply(1, text)
  \/ \E error \in CompletionErrors : CompleteError(1, error)
  \/ \E fails \in BOOLEAN : Cleanup(1, fails)

SpecZip == Init /\ [][NextZip]_vars

\* The directory walk of the request has returned.
Walked(r) == h[r].pc \in {"reading", "calling", "cleanup", "done"} /\ h[r].tempExtractionDir >= 0

\* C17: every candidate file carries its path relative to the extraction root,
\* whatever its nesting depth, and the markers of the corpus carry that path.
C17_PathsRelativeToRoot ==
  \A r \in Req :
    Walked(r) =>
      /\ \A i \in 1..Len(h[r].allCodeFiles) :
           h[r].allCodeFiles[i].relativePath = h[r].allCodeFiles[i].fullPath
      /\ \A i \in 1..Len(h[r].combinedCode) :
           h[r].combinedCode[i].relativePath = h[r].allCodeFiles[i].fullPath

\* The file names with a supported extension in some letter case, and the
\* directory names that are excluded in some letter case.
SupportedNames == {"a.js", "b.js", "c.js", "B.JS"}
ExcludedNames == {"node_modules", "dist", "Dist"}

\* The files of the extraction directory that are candidates.
ExpectedCandidates(files) ==
  {p \in DOMAIN files :
     /\ p[Len(p)] \in SupportedNames
     /\ \A i \in 1..(Len(p) - 1) : p[i] \notin ExcludedNames}

\* C18: the candidate list is exactly the regular files with a supported
\* extension, in any letter case, none of whose ancestor directories is excluded,
\* in any letter case; nothing below an excluded directory is listed.
C18_CandidatesAreSupportedFiles ==
  \A r \in Req :
    Walked(r) =>
      LET files == req[r].form.zip.entries
          all == h[r].allCodeFiles
      IN /\ {all[i].fullPath : i \in 1..Len(all)} = ExpectedCandidates(files)
         /\ Len(all) = Cardinality(ExpectedCandidates(files))
         /\ \A i \in 1..Len(all) : all[i].size = files[all[i].fullPath]

C18_Witness ==
  /\ Walked(1)
  /\ DOMAIN req[1].form.zip.entries = {<<"Dist", "a.js">>, <<"lib", "sub", "c.js">>}
  /\ Len(h[1].allCodeFiles) = 1
  /\ h[1].allCodeFiles[1].fullPath = <<"lib", "sub", "c.js">>

\* The assembly loop of the request has ended without an exception.
Assembled(r) ==
  /\ h[r].tempExtractionDir >= 0
  /\ h[r].pc \in {"calling", "cleanup", "done"}
  /\ h[r].calls = 1

\* MAX_CONTEXT_LENGTH tokens in characters, at four characters a token.
ContextBudgetChars == 4 * MAX_CONTEXT_LENGTH

RECURSIVE CostOfFirst(_, _)
\* The characters of the first k files of the list.
CostOfFirst(list, k) == IF k = 0 THEN 0 ELSE CostOfFirst(list, k - 1) + list[k].size

\* The files of the list are in size-descending order.
SizeDescending(list) == \A i, j \in 1..Len(list) : i < j => list[i].size >= list[j].size

\* The included files are the first n of the list.
IncludesFirst(r, n) ==
  /\ Len(h[r].combinedCode) = n
  /\ h[r].filesAnalyzedCount = n
  /\ \A i \in 1..n :
       /\ h[r].combinedCode[i].relativePath = h[r].allCodeFiles[i].relativePath
       /\ h[r].combinedCode[i].len = h[r].allCodeFiles[i].size

\* C19 as stated: the included files are the longest prefix of the size-descending
\* list whose cumulative cost does not exceed the budget; a file that brings the
\* total to exactly the budget is included.
C19_Original_PrefixWithinBudget ==
  \A r \in Req :
    Assembled(r) =>
      LET all == h[r].allCodeFiles
          fitting == {k \in 0..Len(all) :
                        \A j \in 1..k : CostOfFirst(all, j) <= ContextBudgetChars}
      IN /\ SizeDescending(all)
         /\ \E n \in fitting : (\A k \in fitting : k <= n) /\ IncludesFirst(r, n)

\* C19 as the code has it: the included files are the longest prefix of the
\* size-descending list whose cumulative cost stays strictly below the budget; the
\* loop stops at the first file that brings the total to the budget or beyond, and
\* when the whole list stays below the budget every file is included.
C19_PrefixBelowBudget ==
  \A r \in Req :
    Assembled(r) =>
      LET all == h[r].allCodeFiles
          fitting == {k \in 0..Len(all) :
                        \A j \in 1..k : CostOfFirst(all, j) < ContextBudgetChars}
      IN /\ SizeDescending(all)
         /\ \E n \in fitting : (\A k \in fitting : k <= n) /\ IncludesFirst(r, n)
         /\ (CostOfFirst(all, Len(all)) < ContextBudgetChars) => IncludesFirst(r, Len(all))

C19_Witness ==
  /\ Assembled(1)
  /\ Len(h[1].allCodeFiles) = 2
  /\ CostOfFirst(h[1].allCodeFiles, 2) = ContextBudgetChars
  /\ IncludesFirst(1, 1)

\* The assembly loop of the request has ended (the message of the archive branch
\* is set) without selecting a file.
NoFileSelected(r) ==
  /\ h[r].tempExtractionDir >= 0
  /\ h[r].analysisMessage # NoMessage
  /\ h[r].combinedCode = <<>>

\* C20: when no file is selected the corpus is the placeholder text and the count
\* of included files is 0; this is no error: the completion call is made, and the
\* request is not answered 400, nor 500 unless the completion call fails.
C20_PlaceholderWhenNoFiles ==
  \A r \in Req :
    NoFileSelected(r) =>
      /\ h[r].userCode = "placeholder"
      /\ h[r].filesAnalyzedCount = 0
      /\ h[r].analysisMessage = Message("zipnone", OriginalFileName(req[r].form), 0)
      /\ h[r].calls = 1
      /\ h[r].resp.status \in {0, 200, 500}
      /\ h[r].resp.status = 500 => h[r].caught \in CompletionErrors
      /\ h[r].resp.status = 200 => h[r].resp.message.kind = "zipnone"

C20_Witness ==
  /\ NoFileSelected(1) /\ Done(1)
  /\ Len(h[1].allCodeFiles) = 2
  /\ h[1].resp.status = 200
  /\ h[1].userCode = "placeholder"

(***************************************************************************)
(* The same archive uploaded twice, the second request after the first has *)
(* been served.                                                            *)
(***************************************************************************)
\* The first request has been served and the same upload is sent again.
ReceiveAgain ==
  /\ Done(1)
  /\ Receive(2, req[1])

NextTwice ==
  \/ \E tree \in Trees : Receive(1, ZipRequest(tree))
  \/ ReceiveAgain
  \/ \E r \in Req : ParseForm(r)
  \/ \E r \in Req : Mkdir(r)
  \/ \E r \in Req : Walk(r)
  \/ \E r \in Req : ReadFile(r)
  \/ \E r \in Req : CompleteReply(r, EmptyLists)
  \/ \E r \in Req : CompleteError(r, Error("503 Service Unavailable", ""))
  \/ \E r \in Req, fails \in BOOLEAN : Cleanup(r, fails)

SpecTwice == Init /\ [][NextTwice]_vars

\* The position of the file with the given path in the list.
PositionOf(list, fullPath) == CHOOSE i \in 1..Len(list) : list[i].fullPath = fullPath

\* What the corpus holds: the path in the markers and the content's length.
CorpusOf(r) ==
  [i \in 1..Len(h[r].combinedCode) |->
     <<h[r].combinedCode[i].relativePath, h[r].combinedCode[i].len>>]

KeyOrder ==
  <<"bugs", "security_vulnerabilities", "improvements", "explanations", "message", "severity">>

RECURSIVE Render(_), RenderMembers(_, _, _), RenderElements(_, _)

\* The JSON text of a value.
Render(v) ==
  CASE v.t = "obj" -> <<"{">> \o RenderMembers(v.m, 1, TRUE) \o <<"}">>
    [] v.t = "arr" -> <<"[">> \o RenderElements(v.items, 1) \o <<"]">>
    [] v.t = "str" -> IF v.s \in StringLits THEN <<v.s>>
                      ELSE <<"q">> \o CharsOf(v.s) \o <<"q">>
    [] v.t = "num" -> <<"1">>
    [] OTHER -> <<"null">>

\* The members of an object from the i-th key of KeyOrder on.
RenderMembers(m, i, first) ==
  IF i > Len(KeyOrder) THEN <<>>
  ELSE IF KeyOrder[i] \notin DOMAIN m THEN RenderMembers(m, i + 1, first)
  ELSE (IF first THEN <<>> ELSE <<",">>) \o <<KeyOrder[i], ":">> \o Render(m[KeyOrder[i]])
       \o RenderMembers(m, i + 1, FALSE)

\* The elements of an array from the i-th on.
RenderElements(items, i) ==
  IF i > Len(items) THEN <<>>
  ELSE (IF i = 1 THEN <<>> ELSE <<",">>) \o Render(items[i]) \o RenderElements(items, i + 1)

\* Findings, among them one whose message holds a closing brace before backticks.
ExtractFindings == Findings \cup {JObj([k \in {"message"} |-> JStr(BraceFenceString)])}

\* The analysis objects with the four lists and at most MaxFindings findings.
ExtractObjects ==
  {JObj([k \in RequiredKeys |-> JArr(f[k])]) :
     f \in {f \in [RequiredKeys -> SeqsUpTo(ExtractFindings, MaxFindings)] :
              Len(f["bugs"]) + Len(f["security_vulnerabilities"])
                + Len(f["improvements"]) + Len(f["explanations"]) <= MaxFindings}}

\* Replies that hold the object in a json fence, with or without prose (and braces
\* in the prose) around the fence.
FencedReplies ==
  {[object |-> o,
    text |-> pre \o <<"fence_json", "ws">> \o Render(o) \o <<"ws", "fence">> \o suf] :
     o \in ExtractObjects,
     pre \in {<<>>, <<"prose", "ws">>, <<"prose", "{", "prose", "}", "ws">>},
     suf \in {<<>>, <<"ws", "prose", "{", "}">>}}

\* Replies without a fence: the object with or without prose around it.
BareReplies ==
  {[object |-> o, text |-> pre \o Render(o) \o suf] :
     o \in ExtractObjects,
     pre \in {<<>>, <<"prose", "ws">>},
     suf \in {<<>>, <<"ws", "prose">>}}

\* One request with pasted code, answered from one of these replies.
NextExtract ==
  \/ Receive(1, Request("POST", FALSE, "text", NoForm))
  \/ \E w \in FencedReplies \cup BareReplies : CompleteReply(1, w.text)

SpecExtract == Init /\ [][NextExtract]_vars

\* C22: a reply that holds an object with the four lists in a json fence is
\* answered with parsed = true and that object as analysis, whatever braces the
\* prose around the fence holds and whatever entries the lists hold.
C22_FencedObjectRecovered ==
  \A w \in FencedReplies :
    (h[1].resp.status = 200 /\ h[1].reply = w.text) =>
      /\ jsonMatch(w.text).found
      /\ h[1].resp.parsed
      /\ h[1].resp.analysis = w.object

\* C23: a reply without a fence that is one well-formed object with the four
\* lists, with or without prose around it, is answered with parsed = true and
\* that object as analysis, whatever entries the lists hold.
C23_BareObjectRecovered ==
  \A w \in BareReplies :
    (h[1].resp.status = 200 /\ h[1].reply = w.text) =>
      /\ h[1].resp.parsed
      /\ h[1].resp.analysis = w.object

(***************************************************************************)
(* The page's controls (Home.jsx 66-121 and 337-406): the Analyze button    *)
(* with its throttle, the file input, the textarea, the clear button, the  *)
(* timers and the settling of file reads and requests.  State updates of   *)
(* one event are rendered before the next event is handled.                *)
(***************************************************************************)
\* The most requests in flight that are told apart.
MaxInFlight == 2

\* What the textarea can hold, and the values for which inputCode.trim() is ''.
Codes == {"", "blank", "text", "more"}
BlankCodes == {"", "blank"}

\* The files the user can select.
PageFiles == {"main.js", "proj.zip"}

\* fileName.endsWith('.zip') (Home.jsx 95, 337)
IsZipFile(fileName) == fileName = "proj.zip"

\* Mutant: the button is not disabled while isLoading is true.
AnalyzeEnabledWhileLoading(p) == p.inputCode \notin BlankCodes \/ p.uploadedFile # "none"

\* The Analyze button is enabled (Home.jsx 406).
AnalyzeEnabled(p) ==
  ~p.isLoading /\ (p.inputCode \notin BlankCodes \/ p.uploadedFile # "none")

\* useCallback(throttle(..., 3000), [inputCode, uploadedFile, fileName]) (Home.jsx
\* 79-84): when a dependency changed the render takes the throttled function just
\* made, whose inThrottle is false; otherwise it keeps the previous one.  newFile
\* tells that uploadedFile is another File object.
Rerender(old, new, newFile) ==
  IF newFile \/ new.inputCode # old.inputCode \/ new.uploadedFile # old.uploadedFile
       \/ new.fileName # old.fileName
  THEN [new EXCEPT !.inThrottle = FALSE, !.timer = FALSE]
  ELSE new

\* clearFile (Home.jsx 112-121)
clearFile(p) == [p EXCEPT !.fileName = "", !.uploadedFile = "none", !.inputCode = ""]

\* A click on the enabled Analyze button (Home.jsx 7-17, 125-175): the throttled
\* function drops it while inThrottle is set; otherwise handleAnalyzeCode runs up
\* to its await of fetch.
ClickAnalyze ==
  /\ AnalyzeEnabled(page)
  /\ page.inFlight < MaxInFlight
  /\ IF page.inThrottle
     THEN /\ page' = [page EXCEPT !.lastClick = "dropped"]
          /\ UNCHANGED <<data, issues, uiPc>>
     ELSE LET p == [page EXCEPT !.inThrottle = TRUE, !.timer = TRUE, !.recent = TRUE,
                                !.lastClick = "accepted"]
          IN IF page.uploadedFile # "none" \/ page.inputCode \notin BlankCodes
             THEN /\ page' = [p EXCEPT !.isLoading = TRUE, !.inFlight = @ + 1]
                  /\ issues' = <<>>
                  /\ data' = NoData
                  /\ uiPc' = "loading"
             ELSE /\ page' = p
                  /\ UNCHANGED <<data, issues, uiPc>>
  /\ UNCHANGED serverVars

\* setTimeout(() => (inThrottle = false), delay) of the current throttled function
\* fires: 3000 ms have passed since the click it accepted.
ThrottleTimer ==
  /\ page.timer
  /\ page' = [page EXCEPT !.inThrottle = FALSE, !.timer = FALSE, !.recent = FALSE]
  /\ UNCHANGED <<serverVars, data, issues, uiPc>>

\* The timer of a throttled function that is no longer the current one fires.
OrphanTimer ==
  /\ page.recent /\ ~page.timer
  /\ page' = [page EXCEPT !.recent = FALSE]
  /\ UNCHANGED <<serverVars, data, issues, uiPc>>

\* handleFileChange up to its await (Home.jsx 86-109).
SelectFile(f, rand) ==
  /\ ~page.isLoading
  /\ LET p == [page EXCEPT !.fileName = f, !.uploadedFile = f]
     IN IF ~IsZipFile(f)
        THEN /\ page' = Rerender(page, [p EXCEPT !.isLoading = TRUE, !.reading = TRUE], TRUE)
             /\ issues' = <<>>
        ELSE /\ page' = Rerender(page, [p EXCEPT !.inputCode = ""], TRUE)
             /\ issues' = <<[id |-> IssueId("", -1, rand), type |-> "Info",
                             message |-> <<"ZIP file selected. Analysis will process the archive.">>,
                             line |-> "", severity |-> "info", suggestedFix |-> "",
                             filePath |-> ""]>>
  /\ UNCHANGED <<serverVars, data, uiPc>>

\* file.text() settles (Home.jsx 97-106); after a failure clearFile empties the
\* issue list that was just set.
FileRead(ok, text) ==
  /\ page.reading
  /\ page' = Rerender(page,
                      IF ok THEN [page EXCEPT !.inputCode = text, !.isLoading = FALSE,
                                              !.reading = FALSE]
                      ELSE [clearFile(page) EXCEPT !.isLoading = FALSE, !.reading = FALSE],
                      FALSE)
  /\ issues' = <<>>
  /\ UNCHANGED <<serverVars, data, uiPc>>

\* The Clear Selection button (Home.jsx 378-386).
ClearSelection ==
  /\ ~page.isLoading
  /\ page.fileName # ""
  /\ page' = Rerender(page, clearFile(page), FALSE)
  /\ issues' = <<>>
  /\ UNCHANGED <<serverVars, data, uiPc>>

\* The textarea's onChange (Home.jsx 389-400): with a file selected clearFile
\* runs after setInputCode and leaves inputCode empty.
EditText(code) ==
  /\ ~IsZipFile(page.fileName)
  /\ ~(page.isLoading \/ (page.fileName # "" /\ page.inputCode = ""))
  /\ code # page.inputCode
  /\ IF page.fileName # ""
     THEN /\ page' = Rerender(page, clearFile(page), FALSE)
          /\ issues' = <<>>
     ELSE /\ page' = Rerender(page, [page EXCEPT !.inputCode = code], FALSE)
          /\ UNCHANGED issues
  /\ UNCHANGED <<serverVars, data, uiPc>>

\* The 200 bodies of this specification: no findings, one bug, not parsed.
UiData ==
  {[parsed |-> TRUE, analysis |-> EmptyAnalysis, message |-> Message("pasted", "", 0)],
   [parsed |-> TRUE,
    analysis |-> JObj([k \in RequiredKeys |->
                         IF k = "bugs" THEN JArr(<<JObj([x \in {"message"} |-> JStr("m1")])>>)
                         ELSE JArr(<<>>)]),
    message |-> Message("pasted", "", 0)],
   [parsed |-> FALSE, analysis |-> EmptyAnalysis, message |-> Message("pasted", "", 0)]}

\* How a fetch settles (Home.jsx 175-182): a 200 response with a body, a 200
\* response whose body is not JSON, a response that is not ok with or without a
\* JSON body, or a rejection.
Outcomes ==
  {[kind |-> "ok", d |-> d, error |-> ""] : d \in UiData}
  \cup {[kind |-> k, d |-> NoData, error |-> e] :
          <<k, e>> \in {<<"badBody", "Unexpected token < in JSON at position 0">>,
                        <<"notOk", "No code content found for analysis.">>,
                        <<"notOkBadBody", "Failed to parse error response from backend.">>,
                        <<"rejected", "Failed to fetch">>}}

\* The issue list handleAnalyzeCode sets for an outcome (Home.jsx 177-331).
IssuesFor(outcome, rnd) ==
  IF outcome.kind = "ok" THEN BuildIssues(outcome.d, rnd)
  ELSE <<ErrorIssue(outcome.error, rnd[1])>>

\* Mutant: a rejected fetch is not caught and the finally block is missing.
SettleRejectionUncaught ==
  /\ page.inFlight > 0
  /\ \E outcome \in Outcomes :
       \E rnd \in [1..(IF outcome.kind = "ok" THEN NumIdCalls(outcome.d) ELSE 1) -> RandomIds] :
         /\ data' = outcome.d
         /\ issues' = IF outcome.kind = "rejected" THEN issues ELSE IssuesFor(outcome, rnd)
         /\ page' = [page EXCEPT !.inFlight = @ - 1,
                                 !.isLoading = IF outcome.kind = "rejected" THEN @ ELSE FALSE]
         /\ uiPc' = IF page.inFlight = 1 THEN "idle" ELSE "loading"
  /\ UNCHANGED serverVars

\* The fetch of a running handleAnalyzeCode settles and the function runs to its
\* end (Home.jsx 175-334).
Settle ==
  /\ page.inFlight > 0
  /\ \E outcome \in Outcomes :
       \E rnd \in [1..(IF outcome.kind = "ok" THEN NumIdCalls(outcome.d) ELSE 1) -> RandomIds] :
         /\ data' = outcome.d
         /\ issues' = IssuesFor(outcome, rnd)
         /\ page' = [page EXCEPT !.inFlight = @ - 1, !.isLoading = FALSE]
         /\ uiPc' = IF page.inFlight = 1 THEN "idle" ELSE "loading"
  /\ UNCHANGED serverVars

NextUI ==
  \/ ClickAnalyze
  \/ ThrottleTimer
  \/ OrphanTimer
  \/ \E f \in PageFiles, rand \in RandomIds : SelectFile(f, rand)
  \/ \E ok \in BOOLEAN, text \in {"text", "blank"} : FileRead(ok, text)
  \/ ClearSelection
  \/ \E code \in Codes : EditText(code)
  \/ Settle

SpecUI == InitPage /\ [][NextUI]_vars

\* Every fetch settles.
SpecUIFair == SpecUI /\ WF_vars(Settle)

\* C24: handleAnalyzeCode is started at most once in any 3-second window, also when
\* the input code, the uploaded file or the file name changed in between.
C24_OneStartPerWindow ==
  [][(page'.lastClick = "accepted" /\ page'.inFlight > page.inFlight) => ~page.recent]_vars

\* C25: at most one request to /api/analyze is in flight at any time.
C25_OneRequestInFlight == page.inFlight <= 1

C25_Witness ==
  /\ page.inFlight = 1
  /\ ~page.inThrottle /\ ~page.recent
  /\ page.uploadedFile = "proj.zip"

\* A running handleAnalyzeCode holds isLoading at true.
AnalysisLoading == page.inFlight > 0 /\ page.isLoading

\* C27: once handleAnalyzeCode has set isLoading to true, isLoading becomes false
\* again when the fetch settles, however it settles, and at that point the issue
\* list is not empty.
C27_LoadingEndsWithIssues ==
  /\ AnalysisLoading ~> (~page.isLoading /\ issues # <<>>)
  /\ [][(AnalysisLoading /\ page'.inFlight < page.inFlight) =>
          (~page'.isLoading /\ issues' # <<>>)]_vars

C27_Witness ==
  /\ ~page.isLoading /\ page.inFlight = 0
  /\ Len(issues) = 1 /\ issues[1].type = "Error" /\ issues[1].severity = "high"
  /\ issues[1].message = <<"Failed to fetch">>

\* C26: every request to the handler receives exactly one response: on every path
\* (405, 400, 200, 413, 500, with or without a failing cleanup) a status and body
\* are sent once, never zero times and never twice.
C26_ExactlyOneResponse ==
  \A r \in Req :
    /\ h[r].sent <= 1
    /\ (h[r].sent = 1) = (h[r].resp.status \in {200, 400, 405, 413, 500})
    /\ h[r].pc \in {"cleanup", "done"} => h[r].sent = 1

C26_Witness ==
  \E r \in Req :
    /\ Done(r) /\ h[r].sent = 1 /\ h[r].resp.status = 405
    /\ \E r2 \in Req :
         /\ Done(r2) /\ h[r2].sent = 1 /\ h[r2].cleanupFailed
         /\ h[r2].resp.status = 400

====
